---------------------------- MODULE Spec2Model ----------------------------
(***************************************************************************)
(* Model of waftools/dependencies.py: parse_dependencies translates a list *)
(* of check descriptors into the records handed to waf's multicheck, then  *)
(* stores two (empty) lists on ctx.env; dependency_satisfied is a stub.    *)
(*                                                                         *)
(* Python strings are sequences of one-character strings, Python dicts are *)
(* functions whose DOMAIN is the set of keys present, and Python objects   *)
(* live in a heap indexed by reference, so that aliasing and in-place      *)
(* writes are visible.                                                     *)
(***************************************************************************)
EXTENDS Integers, Sequences, FiniteSets, TLC

VARIABLES
    pc,             \* position of parse_dependencies: idle, map, multicheck,
                    \* write_known, write_satisfied, returned, raised
    heap,           \* reference -> dict (descriptors and records)
    checks,         \* the argument `checks`: sequence of descriptor references
    rules,          \* the local `rules` built by map(): sequence of references
    known_deps,     \* the local set known_deps
    satisfied_deps, \* the local set satisfied_deps
    env,            \* ctx.env: the attributes set on it
    exc,            \* the exception the call raised, <<>> when none
    runnerArgs,     \* argument tuples of the ctx.multicheck calls of this call
    runnerState,    \* ctx.multicheck: none, running, returned, raised
    wrapperLog,     \* per argument position: curried() calls of the runner
    fnLog,          \* per argument position: calls of the original check fn
    input0,         \* the descriptor values as the caller passed them
    envBefore,      \* ctx.env when the current call started
    dsResult        \* last dependency_satisfied query and its return value

vars == <<pc, heap, checks, rules, known_deps, satisfied_deps, env, exc,
          runnerArgs, runnerState, wrapperLog, fnLog, input0, envBefore,
          dsResult>>

---------------------------------------------------------------------------
(* Bounds and input domains *)

MaxChecks == 2

Range(s) == {s[i] : i \in DOMAIN s}

S_foo     == <<"f","o","o">>
S_bar     == <<"b","a","r">>
S_os      == <<"o","s">>
S_osdash  == <<"o","s","-">>
S_oslinux == <<"o","s","-","l","i","n","u","x">>
S_xos     == <<"x","o","s","-">>
S_and     == <<"a","n","d">>
S_or      == <<"o","r">>
S_desc    == <<"F","o","o"," ","l","i","b">>

Names == {S_foo, S_bar}
Funcs == {"check_f", "check_g"}
Contexts == {"bld1", "bld2"}

\* dependency expressions, as their whitespace-separated tokens
DepsExprs ==
    { <<S_bar, S_and, S_oslinux>>,
      <<S_oslinux, S_or, S_osdash>>,
      <<S_os, S_and, S_bar, S_or, S_oslinux, S_and, S_xos, S_and, S_bar>> }

\* a dict from optional values: each argument is {} (key absent) or {v}
MkCheck(n, d, f, r, e) ==
    LET opt  == [name |-> n, desc |-> d, func |-> f, req |-> r, deps |-> e]
        keys == {k \in DOMAIN opt : opt[k] # {}}
    IN  [k \in keys |-> CHOOSE v \in opt[k] : TRUE]

\* descriptors with every required key: names and functions vary together,
\* then req and deps vary on one of them
WellFormed ==
    { MkCheck({n}, {S_desc}, {f}, {}, {}) : n \in Names, f \in Funcs }
    \cup { MkCheck({S_foo}, {S_desc}, {"check_f"}, {r}, {}) : r \in BOOLEAN }
    \cup { MkCheck({S_foo}, {S_desc}, {"check_f"}, {}, {e}) : e \in DepsExprs }
    \cup { MkCheck({S_bar}, {S_desc}, {"check_g"}, {TRUE},
                   {<<S_oslinux, S_or, S_osdash>>}) }

\* descriptors on which a lookup of multicheck_dict fails
Malformed ==
    { MkCheck({}, {S_desc}, {"check_f"}, {}, {<<S_bar, S_and, S_oslinux>>}),
      MkCheck({S_foo}, {}, {"check_f"}, {TRUE}, {}),
      MkCheck({S_bar}, {S_desc}, {}, {}, {}) }

Descriptors == WellFormed \cup Malformed

Inputs == UNION { [1..n -> Descriptors] : n \in 0..MaxChecks }

Idents == {S_foo, S_oslinux}

---------------------------------------------------------------------------
(* Pure helpers of the source *)

startswith(s, p) == Len(s) >= Len(p) /\ SubSeq(s, 1, Len(p)) = p

\* variant of valid_symbol: the prefix tested is 'os', without the dash
valid_symbol_os(check_name) == ~ startswith(check_name, S_os)

valid_symbol(check_name) == ~ startswith(check_name, S_osdash)

\* deps_parser.symbols_list: the symbol names of an expression, in order
Operators == {S_and, S_or}

symbols_list(expr) == SelectSeq(expr, LAMBDA t : t \notin Operators)

MsgPrefix == <<"C","h","e","c","k","i","n","g"," ","f","o","r"," ">>

\* the closure curried: it keeps fn and the cell of multicheck_dict's `check`
curry_id(fn, checkRef) == [fn |-> fn, check |-> checkRef]

\* a check function applied to its arguments; its result is left symbolic
Apply(fn, c, name) == <<fn, c, name>>

\* variant of curried: the name is read from the last descriptor of the list
curried_late(closure, c, h) ==
    [fn |-> closure.fn, ctx |-> c, name |-> h[checks[Len(checks)]]["name"]]

\* the call curried(c) makes: fn(ctx, check['name']), check read at call time
curried(closure, c, h) ==
    [fn |-> closure.fn, ctx |-> c, name |-> h[closure.check]["name"]]

\* dict.get(key, default)
get(d, key, default) == IF key \in DOMAIN d THEN d[key] ELSE default

\* first key whose lookup fails while the dict literal is evaluated
MissingKey(check) ==
    IF "name" \notin DOMAIN check THEN <<"name">>
    ELSE IF "desc" \notin DOMAIN check THEN <<"desc">>
    ELSE IF "func" \notin DOMAIN check THEN <<"func">>
    ELSE <<>>

\* d[key] = value on a dict
setitem(d, key, value) ==
    [k \in DOMAIN d \cup {key} |-> IF k = key THEN value ELSE d[k]]

\* variant of multicheck_dict: req defaults to True
multicheck_dict_req(checkRef, h) ==
    LET check  == h[checkRef]
        result == [id        |-> check["name"],
                   msg       |-> MsgPrefix \o check["desc"],
                   func      |-> curry_id(check["func"], checkRef),
                   mandatory |-> get(check, "req", TRUE)]
    IN  IF "deps" \in DOMAIN check
        \* filter(valid_symbol, after_tests)
        THEN setitem(result, "after_tests",
                     SelectSeq(symbols_list(check["deps"]), valid_symbol))
        ELSE result

\* variant of multicheck_dict: after_tests is stored only when non-empty
multicheck_dict_nonempty(checkRef, h) ==
    LET check  == h[checkRef]
        result == [id        |-> check["name"],
                   msg       |-> MsgPrefix \o check["desc"],
                   func      |-> curry_id(check["func"], checkRef),
                   mandatory |-> get(check, "req", FALSE)]
        after_tests == IF "deps" \in DOMAIN check
                       THEN SelectSeq(symbols_list(check["deps"]), valid_symbol)
                       ELSE <<>>
    IN  IF after_tests # <<>>
        THEN setitem(result, "after_tests", after_tests)
        ELSE result

multicheck_dict(checkRef, h) ==
    LET check  == h[checkRef]
        result == [id        |-> check["name"],
                   msg       |-> MsgPrefix \o check["desc"],
                   func      |-> curry_id(check["func"], checkRef),
                   mandatory |-> get(check, "req", FALSE)]
    IN  IF "deps" \in DOMAIN check
        \* filter(valid_symbol, after_tests)
        THEN setitem(result, "after_tests",
                     SelectSeq(symbols_list(check["deps"]), valid_symbol))
        ELSE result

\* variant of ResultRef: the record is written into the descriptor object
ResultRef_alias(checkRef, h) == checkRef

\* the dict literal creates a new object
ResultRef(checkRef, h) == Cardinality(DOMAIN h) + 1

\* list(a_set): the elements in some order
list(S) == CHOOSE s \in [1..Cardinality(S) -> S] : Range(s) = S

\* variant of dependency_satisfied: True for the ids of translated checks
dependency_satisfied_known(e, dependency_identifier) ==
    \E r \in Range(rules) : heap[r]["id"] = dependency_identifier

dependency_satisfied(e, dependency_identifier) == FALSE

---------------------------------------------------------------------------
(* State machine *)

NoLog == [i \in {} |-> <<>>]

NoEnv == [k \in {} |-> <<>>]

Init ==
    /\ pc = "idle"
    /\ heap = <<>>
    /\ checks = <<>>
    /\ rules = <<>>
    /\ known_deps = {}
    /\ satisfied_deps = {}
    /\ env = NoEnv
    /\ exc = <<>>
    /\ runnerArgs = <<>>
    /\ runnerState = "none"
    /\ wrapperLog = NoLog
    /\ fnLog = NoLog
    /\ input0 = <<>>
    /\ envBefore = NoEnv
    /\ dsResult = <<>>

\* the caller calls ctx.parse_dependencies(checks); lines 37-38 run
Call ==
    /\ pc = "idle"
    /\ \E ds \in Inputs :
        /\ heap' = ds
        /\ checks' = [i \in 1..Len(ds) |-> i]
        /\ input0' = ds
    /\ known_deps' = {}
    /\ satisfied_deps' = {}
    /\ rules' = <<>>
    /\ envBefore' = env
    /\ pc' = "map"
    /\ UNCHANGED <<env, exc, runnerArgs, runnerState, wrapperLog, fnLog,
                   dsResult>>

\* variant of MapStep: the new record is put in front
MapStep_prepend ==
    /\ pc = "map"
    /\ Len(rules) < Len(checks)
    /\ LET c == checks[Len(rules) + 1]
       IN  /\ MissingKey(heap[c]) = <<>>
           /\ LET r == ResultRef(c, heap)
              IN  /\ heap' = (r :> multicheck_dict(c, heap)) @@ heap
                  /\ rules' = <<r>> \o rules
    /\ UNCHANGED <<pc, checks, known_deps, satisfied_deps, env, exc,
                   runnerArgs, runnerState, wrapperLog, fnLog, input0,
                   envBefore, dsResult>>

\* line 40: map() applies multicheck_dict to the next descriptor
MapStep ==
    /\ pc = "map"
    /\ Len(rules) < Len(checks)
    /\ LET c == checks[Len(rules) + 1]
       IN  /\ MissingKey(heap[c]) = <<>>
           /\ LET r == ResultRef(c, heap)
              IN  /\ heap' = (r :> multicheck_dict(c, heap)) @@ heap
                  /\ rules' = Append(rules, r)
    /\ UNCHANGED <<pc, checks, known_deps, satisfied_deps, env, exc,
                   runnerArgs, runnerState, wrapperLog, fnLog, input0,
                   envBefore, dsResult>>

\* variant of MapRaises: the KeyError is swallowed and the records built so far
\* are submitted
MapRaises_skip ==
    /\ pc = "map"
    /\ Len(rules) < Len(checks)
    /\ MissingKey(heap[checks[Len(rules) + 1]]) # <<>>
    /\ runnerArgs' = Append(runnerArgs, rules)
    /\ runnerState' = "running"
    /\ wrapperLog' = [i \in 1..Len(rules) |-> <<>>]
    /\ fnLog' = [i \in 1..Len(rules) |-> <<>>]
    /\ pc' = "multicheck"
    /\ UNCHANGED <<heap, checks, rules, known_deps, satisfied_deps, env, exc,
                   input0, envBefore, dsResult>>

\* line 40: a lookup in multicheck_dict raises KeyError, nothing catches it
MapRaises ==
    /\ pc = "map"
    /\ Len(rules) < Len(checks)
    /\ LET c == checks[Len(rules) + 1]
       IN  /\ MissingKey(heap[c]) # <<>>
           /\ exc' = <<"KeyError", MissingKey(heap[c])[1]>>
    /\ pc' = "raised"
    /\ UNCHANGED <<heap, checks, rules, known_deps, satisfied_deps, env,
                   runnerArgs, runnerState, wrapperLog, fnLog, input0,
                   envBefore, dsResult>>

\* variant of Multicheck: no runner call when there is no record
Multicheck_skip_empty ==
    /\ pc = "map"
    /\ Len(rules) = Len(checks)
    /\ IF rules = <<>>
       THEN /\ pc' = "write_known"
            /\ runnerState' = "returned"
            /\ UNCHANGED <<runnerArgs, wrapperLog, fnLog>>
       ELSE /\ runnerArgs' = Append(runnerArgs, rules)
            /\ runnerState' = "running"
            /\ wrapperLog' = [i \in 1..Len(rules) |-> <<>>]
            /\ fnLog' = [i \in 1..Len(rules) |-> <<>>]
            /\ pc' = "multicheck"
    /\ UNCHANGED <<heap, checks, rules, known_deps, satisfied_deps, env, exc,
                   input0, envBefore, dsResult>>

\* line 41: ctx.multicheck(*rules) is entered
Multicheck ==
    /\ pc = "map"
    /\ Len(rules) = Len(checks)
    /\ runnerArgs' = Append(runnerArgs, rules)
    /\ runnerState' = "running"
    /\ wrapperLog' = [i \in 1..Len(rules) |-> <<>>]
    /\ fnLog' = [i \in 1..Len(rules) |-> <<>>]
    /\ pc' = "multicheck"
    /\ UNCHANGED <<heap, checks, rules, known_deps, satisfied_deps, env, exc,
                   input0, envBefore, dsResult>>

\* the runner calls the func of its i-th argument with a context (lines 19-20)
RunnerCallsFunc ==
    /\ pc = "multicheck"
    /\ \E i \in 1..Len(runnerArgs[1]), c \in Contexts :
        /\ wrapperLog[i] = <<>>
        /\ LET call == curried(heap[runnerArgs[1][i]]["func"], c, heap)
               ret  == Apply(call.fn, call.ctx, call.name)
           IN  /\ fnLog' = [fnLog EXCEPT
                              ![i] = Append(@, [call |-> call, ret |-> ret])]
               /\ wrapperLog' = [wrapperLog EXCEPT
                                   ![i] = Append(@, [ctx |-> c, ret |-> ret])]
    /\ UNCHANGED <<pc, heap, checks, rules, known_deps, satisfied_deps, env,
                   exc, runnerArgs, runnerState, input0, envBefore, dsResult>>

\* ctx.multicheck returns
RunnerReturns ==
    /\ pc = "multicheck"
    /\ runnerState' = "returned"
    /\ pc' = "write_known"
    /\ UNCHANGED <<heap, checks, rules, known_deps, satisfied_deps, env, exc,
                   runnerArgs, wrapperLog, fnLog, input0, envBefore, dsResult>>

\* ctx.multicheck raises (a mandatory check failed); nothing catches it
RunnerRaises ==
    /\ pc = "multicheck"
    /\ runnerState' = "raised"
    /\ exc' = <<"ConfigurationError", "multicheck">>
    /\ pc' = "raised"
    /\ UNCHANGED <<heap, checks, rules, known_deps, satisfied_deps, env,
                   runnerArgs, wrapperLog, fnLog, input0, envBefore, dsResult>>

\* line 43
WriteKnown ==
    /\ pc = "write_known"
    /\ env' = setitem(env, "known_deps", list(known_deps))
    /\ pc' = "write_satisfied"
    /\ UNCHANGED <<heap, checks, rules, known_deps, satisfied_deps, exc,
                   runnerArgs, runnerState, wrapperLog, fnLog, input0,
                   envBefore, dsResult>>

\* variant of WriteSatisfied: the ids of the records are stored
WriteSatisfied_ids ==
    /\ pc = "write_satisfied"
    /\ env' = setitem(env, "satisfied_deps",
                      list({heap[r]["id"] : r \in Range(rules)}))
    /\ pc' = "returned"
    /\ UNCHANGED <<heap, checks, rules, known_deps, satisfied_deps, exc,
                   runnerArgs, runnerState, wrapperLog, fnLog, input0,
                   envBefore, dsResult>>

\* line 44, then the implicit return
WriteSatisfied ==
    /\ pc = "write_satisfied"
    /\ env' = setitem(env, "satisfied_deps", list(satisfied_deps))
    /\ pc' = "returned"
    /\ UNCHANGED <<heap, checks, rules, known_deps, satisfied_deps, exc,
                   runnerArgs, runnerState, wrapperLog, fnLog, input0,
                   envBefore, dsResult>>

\* the call is over (returned or raised): its locals and the objects of the
\* call are gone, ctx.env stays
Return ==
    /\ pc \in {"returned", "raised"}
    /\ pc' = "idle"
    /\ heap' = <<>>
    /\ checks' = <<>>
    /\ rules' = <<>>
    /\ known_deps' = {}
    /\ satisfied_deps' = {}
    /\ exc' = <<>>
    /\ runnerArgs' = <<>>
    /\ runnerState' = "none"
    /\ wrapperLog' = NoLog
    /\ fnLog' = NoLog
    /\ input0' = <<>>
    /\ envBefore' = env
    /\ UNCHANGED <<env, dsResult>>

\* lines 46-48: ctx.dependency_satisfied(identifier), callable at any time
DependencySatisfied ==
    /\ \E ident \in Idents :
        dsResult' = <<ident, dependency_satisfied(env, ident)>>
    /\ UNCHANGED <<pc, heap, checks, rules, known_deps, satisfied_deps, env,
                   exc, runnerArgs, runnerState, wrapperLog, fnLog, input0,
                   envBefore>>

Next ==
    \/ Call
    \/ MapStep
    \/ MapRaises
    \/ Multicheck
    \/ RunnerCallsFunc
    \/ RunnerReturns
    \/ RunnerRaises
    \/ WriteKnown
    \/ WriteSatisfied
    \/ Return
    \/ DependencySatisfied

Spec == Init /\ [][Next]_vars

---------------------------------------------------------------------------
(* Properties *)

TypeOK ==
    /\ pc \in {"idle", "map", "multicheck", "write_known", "write_satisfied",
               "returned", "raised"}
    /\ Len(rules) <= Len(checks)
    /\ runnerState \in {"none", "running", "returned", "raised"}

\* the descriptor the caller passed at position i
Descriptor(i) == input0[i]

\* the record built for position i
Record(i) == heap[rules[i]]

IsMalformed(d) == \E k \in {"name", "desc", "func"} : k \notin DOMAIN d

\* C1: every batch handed to ctx.multicheck has the length of the input, and
\* its i-th record is the one built from the i-th descriptor: its closure
\* holds that descriptor object and its id is that descriptor's name.
C1_LengthAndOrder ==
    \A k \in 1..Len(runnerArgs) :
        /\ Len(runnerArgs[k]) = Len(input0)
        /\ \A i \in 1..Len(input0) :
            /\ heap[runnerArgs[k][i]]["func"].check = checks[i]
            /\ heap[runnerArgs[k][i]]["id"] = Descriptor(i)["name"]
            /\ heap[runnerArgs[k][i]]["func"].fn = Descriptor(i)["func"]

\* two different descriptors with the same name were handed to the runner
C1_Witness ==
    /\ runnerState = "running"
    /\ Len(runnerArgs[1]) = 2
    /\ Descriptor(1)["name"] = Descriptor(2)["name"]
    /\ Descriptor(1) # Descriptor(2)

\* C2: a record's id is the descriptor's name, its msg is 'Checking for '
\* followed by the descriptor's desc, and its mandatory is the descriptor's
\* req when req is present and False when it is absent.
C2_IdMsgMandatory ==
    \A i \in 1..Len(rules) :
        LET d == Descriptor(i)
            r == Record(i)
        IN  /\ r["id"] = d["name"]
            /\ Len(r["msg"]) = 13 + Len(d["desc"])
            /\ SubSeq(r["msg"], 1, 13) =
                 <<"C","h","e","c","k","i","n","g"," ","f","o","r"," ">>
            /\ SubSeq(r["msg"], 14, Len(r["msg"])) = d["desc"]
            /\ ("req" \in DOMAIN d => r["mandatory"] = d["req"])
            /\ ("req" \notin DOMAIN d => r["mandatory"] = FALSE)

\* a descriptor with req = True and one without req were both translated
C2_Witness ==
    /\ Len(rules) = 2
    /\ "req" \in DOMAIN Descriptor(1) /\ Descriptor(1)["req"] = TRUE
    /\ Record(1)["mandatory"] = TRUE
    /\ "req" \notin DOMAIN Descriptor(2)
    /\ Record(2)["msg"] = <<"C","h","e","c","k","i","n","g"," ","f","o","r",
                            " ","F","o","o"," ","l","i","b">>

IsOsSymbol(sym) ==
    Len(sym) >= 3 /\ sym[1] = "o" /\ sym[2] = "s" /\ sym[3] = "-"

\* the positions of syms that hold no os- symbol
KeptPositions(syms) == {j \in 1..Len(syms) : ~ IsOsSymbol(syms[j])}

\* the k-th smallest element of a set of positions
KthPosition(P, k) == CHOOSE j \in P : Cardinality({m \in P : m < j}) = k - 1

\* C3: for a descriptor with deps, after_tests is the extractor's list with
\* exactly the symbols starting with 'os-' removed: same order, same
\* multiplicity.
C3_AfterTestsFiltered ==
    \A i \in 1..Len(rules) :
        "deps" \in DOMAIN Descriptor(i) =>
            LET syms == symbols_list(Descriptor(i)["deps"])
                kept == KeptPositions(syms)
                at   == Record(i)["after_tests"]
            IN  /\ Len(at) = Cardinality(kept)
                /\ \A k \in 1..Len(at) : at[k] = syms[KthPosition(kept, k)]

\* an expression with os, bar, os-linux, xos-, bar was translated
C3_Witness ==
    \E i \in 1..Len(rules) :
        /\ "deps" \in DOMAIN Descriptor(i)
        /\ symbols_list(Descriptor(i)["deps"]) =
             <<S_os, S_bar, S_oslinux, S_xos, S_bar>>
        /\ Record(i)["after_tests"] = <<S_os, S_bar, S_xos, S_bar>>

\* C4: a record has an after_tests entry exactly when its descriptor has a
\* deps key.
C4_AfterTestsIffDeps ==
    \A i \in 1..Len(rules) :
        ("after_tests" \in DOMAIN Record(i)) <=> ("deps" \in DOMAIN Descriptor(i))

\* a descriptor whose symbols are all filtered out, next to one without deps
C4_Witness ==
    /\ Len(rules) = 2
    /\ "deps" \in DOMAIN Descriptor(1)
    /\ "after_tests" \in DOMAIN Record(1)
    /\ Record(1)["after_tests"] = <<>>
    /\ "deps" \notin DOMAIN Descriptor(2)
    /\ "after_tests" \notin DOMAIN Record(2)

\* C5: each call the runner makes of the i-th record's func with a context c
\* makes exactly one call of the i-th descriptor's func, with c and that
\* descriptor's name, and returns what that call returned.
C5_CurriedCallsOwnName ==
    \A i \in DOMAIN wrapperLog :
        /\ Len(fnLog[i]) = Len(wrapperLog[i])
        /\ \A k \in 1..Len(wrapperLog[i]) :
            /\ fnLog[i][k].call = [fn   |-> Descriptor(i)["func"],
                                   ctx  |-> wrapperLog[i][k].ctx,
                                   name |-> Descriptor(i)["name"]]
            /\ wrapperLog[i][k].ret = fnLog[i][k].ret

\* the runner called the first record of a list whose last name differs
C5_Witness ==
    /\ runnerState = "running"
    /\ DOMAIN wrapperLog = {1, 2}
    /\ Descriptor(1)["name"] # Descriptor(2)["name"]
    /\ Descriptor(1)["func"] # Descriptor(2)["func"]
    /\ Len(wrapperLog[1]) = 1
    /\ Len(wrapperLog[2]) = 1
    /\ wrapperLog[1][1].ctx # wrapperLog[2][1].ctx

\* C6: dependency_satisfied returns False for every identifier in every
\* state, and a call of it changes nothing but the caller's view of the
\* returned value.
C6_NeverSatisfied ==
    /\ [](\A ident \in Idents : dependency_satisfied(env, ident) = FALSE)
    /\ [](dsResult # <<>> => dsResult[2] = FALSE)
    /\ [][dsResult' # dsResult =>
            UNCHANGED <<pc, heap, checks, rules, known_deps, satisfied_deps,
                        env, exc, runnerArgs, runnerState, wrapperLog, fnLog,
                        input0, envBefore>>]_vars

\* asked about foo after foo was translated, run by the runner, and the
\* call returned
C6_Witness ==
    /\ pc = "returned"
    /\ dsResult = <<S_foo, FALSE>>
    /\ \E i \in 1..Len(rules) :
        /\ Record(i)["id"] = S_foo
        /\ Len(wrapperLog[i]) = 1

\* C7: when parse_dependencies has returned, env.known_deps and
\* env.satisfied_deps are both the empty list, whatever env held before; and
\* in every state where both are set, satisfied_deps is a subset of
\* known_deps.
C7_EnvEmptyAfterCall ==
    /\ pc = "returned" =>
        /\ DOMAIN env = {"known_deps", "satisfied_deps"}
        /\ env["known_deps"] = <<>>
        /\ env["satisfied_deps"] = <<>>
    /\ {"known_deps", "satisfied_deps"} \subseteq DOMAIN env =>
        Range(env["satisfied_deps"]) \subseteq Range(env["known_deps"])

\* a second call, on two well-formed descriptors, has returned
C7_Witness ==
    /\ pc = "returned"
    /\ Len(rules) = 2
    /\ DOMAIN envBefore = {"known_deps", "satisfied_deps"}

\* C8: once ctx.multicheck has returned it was called exactly once in this
\* call, with all the records; it is never called twice; and ctx.env differs
\* from its value at the start of the call only after the runner returned.
C8_SingleRunnerCall ==
    /\ Len(runnerArgs) <= 1
    /\ pc \in {"write_known", "write_satisfied", "returned"} =>
        /\ Len(runnerArgs) = 1
        /\ runnerArgs[1] = rules
        /\ Len(rules) = Len(input0)
    /\ (pc # "idle" /\ env # envBefore) =>
        /\ runnerState = "returned"
        /\ pc \in {"write_satisfied", "returned"}

\* the call on the empty list returned: the runner got no record and the
\* environment was written afterwards
C8_Witness ==
    /\ pc = "returned"
    /\ input0 = <<>>
    /\ runnerArgs = << <<>> >>
    /\ env # envBefore

\* C9: with a descriptor missing a required key anywhere in the list the
\* runner is never called, the call ends with the KeyError of the first
\* failing lookup, and env keeps its value; when the runner raises, the call
\* ends with the runner's exception and env keeps its value.
C9_FailuresPropagate ==
    /\ (\E i \in 1..Len(input0) : IsMalformed(Descriptor(i))) =>
        /\ runnerArgs = <<>>
        /\ runnerState = "none"
        /\ pc \in {"map", "raised"}
        /\ env = envBefore
    /\ (pc = "raised" /\ runnerState = "none") =>
        /\ exc[1] = "KeyError"
        /\ IsMalformed(Descriptor(Len(rules) + 1))
        /\ exc[2] \notin DOMAIN Descriptor(Len(rules) + 1)
        /\ \A j \in 1..Len(rules) : ~ IsMalformed(Descriptor(j))
    /\ runnerState = "raised" =>
        /\ pc = "raised"
        /\ exc = <<"ConfigurationError", "multicheck">>
        /\ env = envBefore
    /\ pc = "raised" => env = envBefore

\* a well-formed descriptor followed by one without desc: the call raised
\* after building the first record
C9_Witness ==
    /\ pc = "raised"
    /\ Len(input0) = 2
    /\ Len(rules) = 1
    /\ "desc" \notin DOMAIN Descriptor(2)
    /\ exc = <<"KeyError", "desc">>
    /\ DOMAIN envBefore = {"known_deps", "satisfied_deps"}

\* C10: during and after a call the checks sequence and every descriptor in
\* it are as the caller passed them, every record is an object of its own
\* (no descriptor, no other record), and ctx.env holds nothing but the two
\* fields.
C10_InputUntouched ==
    /\ pc # "idle" =>
        /\ checks = [i \in 1..Len(input0) |-> i]
        /\ \A i \in 1..Len(input0) : heap[checks[i]] = input0[i]
        /\ \A i \in 1..Len(rules) : rules[i] \notin Range(checks)
        /\ \A i, j \in 1..Len(rules) : rules[i] = rules[j] => i = j
    /\ DOMAIN env \subseteq {"known_deps", "satisfied_deps"}

\* a call on two descriptors with req and deps has returned
C10_Witness ==
    /\ pc = "returned"
    /\ Len(rules) = 2
    /\ "deps" \in DOMAIN Descriptor(1)
    /\ "req" \in DOMAIN Descriptor(1)
    /\ Len(wrapperLog[1]) = 1
=============================================================================
